---- MODULE Spec2Model ----
(***************************************************************************)
(* HuggingFaceEmbedder of advanced_agent_huggingface_embeddings.py: the    *)
(* embedding client (construction, get_embedding, get_embeddings,          *)
(* get_embedding_and_usage) and its hash-based fallback embedding.         *)
(*                                                                         *)
(* A text is a sequence of Unicode code points.  A float produced by       *)
(* b / 255.0 is kept as the exact quotient <<b, 255>>; for 0 <= b <= 255   *)
(* the IEEE doubles b / 255.0 are pairwise distinct, ordered as the        *)
(* quotients are, and 255 / 255.0 is exactly 1.0.                          *)
(***************************************************************************)
EXTENDS Integers, Sequences, FiniteSets, TLC

(***************************************************************************)
(* Bounds of the model.                                                    *)
(***************************************************************************)
\* Number of HuggingFaceEmbedder instances.
NumClients == 2
\* Longest list handed to get_embeddings.
MaxBatch == 2
\* Longest vector handed to cosine_similarity.
MaxVecLen == 2
\* Number of HuggingFaceEmbedder instances given any model identifier.
NumNamedClients == 1
\* Most lines the chat loop reads.
MaxInputs == 3

(***************************************************************************)
(* str.encode(): UTF-8, errors="strict".                                   *)
(***************************************************************************)
\* A lone surrogate cannot be encoded: str.encode raises UnicodeEncodeError.
IsSurrogate(cp) == cp >= 55296 /\ cp <= 57343

Encodable(text) == \A i \in 1..Len(text) : ~IsSurrogate(text[i])

Utf8Char(cp) ==
    IF cp < 128 THEN <<cp>>
    ELSE IF cp < 2048 THEN <<192 + (cp \div 64), 128 + (cp % 64)>>
    ELSE IF cp < 65536
         THEN <<224 + (cp \div 4096), 128 + ((cp \div 64) % 64), 128 + (cp % 64)>>
    ELSE <<240 + (cp \div 262144), 128 + ((cp \div 4096) % 64),
           128 + ((cp \div 64) % 64), 128 + (cp % 64)>>

RECURSIVE encode(_)
encode(text) ==
    IF text = <<>> THEN <<>> ELSE Utf8Char(Head(text)) \o encode(Tail(text))

(***************************************************************************)
(* hashlib.md5 (RFC 1321).  A 32-bit word is a sequence of 32 bits, least  *)
(* significant first, so that no sum leaves the machine integers.          *)
(***************************************************************************)
BitsOf(v, n) == [i \in 1..n |-> (v \div (2 ^ (i - 1))) % 2]

\* The word whose high and low 16-bit halves are hi and lo.
Word(hi, lo) == BitsOf(lo, 16) \o BitsOf(hi, 16)

\* Four bytes, little-endian, as one word.
WordOfBytes(b) == BitsOf(b[1], 8) \o BitsOf(b[2], 8) \o BitsOf(b[3], 8) \o BitsOf(b[4], 8)

And32(a, b) == [i \in 1..32 |-> a[i] * b[i]]
Or32(a, b) == [i \in 1..32 |-> IF a[i] + b[i] > 0 THEN 1 ELSE 0]
Xor32(a, b) == [i \in 1..32 |-> (a[i] + b[i]) % 2]
Not32(a) == [i \in 1..32 |-> 1 - a[i]]

\* The value of the 16 bits of a that follow bit o.
Val16(a, o) ==
    a[o + 1] + 2 * a[o + 2] + 4 * a[o + 3] + 8 * a[o + 4] + 16 * a[o + 5]
    + 32 * a[o + 6] + 64 * a[o + 7] + 128 * a[o + 8] + 256 * a[o + 9]
    + 512 * a[o + 10] + 1024 * a[o + 11] + 2048 * a[o + 12] + 4096 * a[o + 13]
    + 8192 * a[o + 14] + 16384 * a[o + 15] + 32768 * a[o + 16]

\* The four bytes of a word, little-endian.
BytesOfWord(w) ==
    <<Val16(w, 0) % 256, Val16(w, 0) \div 256, Val16(w, 16) % 256, Val16(w, 16) \div 256>>

\* Addition modulo 2^32, by halves with the carry between them.
Add32(a, b) ==
    LET lo == Val16(a, 0) + Val16(b, 0)
        hi == Val16(a, 16) + Val16(b, 16) + (lo \div 65536)
    IN  Word(hi % 65536, lo % 65536)

RotL32(a, n) == [i \in 1..32 |-> a[((i - 1 - n) % 32) + 1]]

MD5S ==
    <<7, 12, 17, 22, 7, 12, 17, 22, 7, 12, 17, 22, 7, 12, 17, 22,
      5, 9, 14, 20, 5, 9, 14, 20, 5, 9, 14, 20, 5, 9, 14, 20,
      4, 11, 16, 23, 4, 11, 16, 23, 4, 11, 16, 23, 4, 11, 16, 23,
      6, 10, 15, 21, 6, 10, 15, 21, 6, 10, 15, 21, 6, 10, 15, 21>>

\* floor(2^32 * abs(sin(i))), i = 1..64, as <<high half, low half>>.
MD5K ==
    << <<55146, 42104>>, <<59591, 46934>>, <<9248, 28891>>, <<49597, 52974>>,
       <<62844, 4015>>, <<18311, 50730>>, <<43056, 17939>>, <<64838, 38145>>,
       <<27008, 39128>>, <<35652, 63407>>, <<65535, 23473>>, <<35164, 55230>>,
       <<27536, 4386>>, <<64920, 29075>>, <<42617, 17294>>, <<18868, 2081>>,
       <<63006, 9570>>, <<49216, 45888>>, <<9822, 23121>>, <<59830, 51114>>,
       <<54831, 4189>>, <<580, 5203>>, <<55457, 59009>>, <<59347, 64456>>,
       <<8673, 52710>>, <<49975, 2006>>, <<62677, 3463>>, <<17754, 5357>>,
       <<43491, 59653>>, <<64751, 41976>>, <<26479, 729>>, <<36138, 19594>>,
       <<65530, 14658>>, <<34673, 63105>>, <<28061, 24866>>, <<64997, 14348>>,
       <<42174, 59972>>, <<19422, 53161>>, <<63163, 19296>>, <<48831, 48240>>,
       <<10395, 32454>>, <<60065, 10234>>, <<54511, 12421>>, <<1160, 7429>>,
       <<55764, 53305>>, <<59099, 39397>>, <<8098, 31992>>, <<50348, 22117>>,
       <<62505, 8772>>, <<17194, 65431>>, <<43924, 9127>>, <<64659, 41017>>,
       <<25947, 22979>>, <<36620, 52370>>, <<65519, 62589>>, <<34180, 24017>>,
       <<28584, 32335>>, <<65068, 59104>>, <<41729, 17172>>, <<19976, 4513>>,
       <<63315, 32386>>, <<48442, 62005>>, <<10967, 53947>>, <<60294, 54161>> >>

MD5Init ==
    <<Word(26437, 8961), Word(61389, 43913), Word(39098, 56574), Word(4146, 21622)>>

\* The message padded to a multiple of 64 bytes: 0x80, zeros, the bit length
\* as 8 little-endian bytes.
MD5Pad(msg) ==
    LET n == Len(msg)
        z == (55 - n) % 64
        bitlen == 8 * n
    IN  msg \o <<128>> \o [i \in 1..z |-> 0]
            \o [k \in 1..8 |-> IF k <= 4 THEN (bitlen \div (256 ^ (k - 1))) % 256 ELSE 0]

\* One of the 64 steps on the state <<A, B, C, D>> with the block's words M.
MD5Step(st, M, i) ==
    LET A == st[1]
        B == st[2]
        C == st[3]
        D == st[4]
        F == IF i < 16 THEN Or32(And32(B, C), And32(Not32(B), D))
             ELSE IF i < 32 THEN Or32(And32(D, B), And32(Not32(D), C))
             ELSE IF i < 48 THEN Xor32(Xor32(B, C), D)
             ELSE Xor32(C, Or32(B, Not32(D)))
        g == IF i < 16 THEN i
             ELSE IF i < 32 THEN (5 * i + 1) % 16
             ELSE IF i < 48 THEN (3 * i + 5) % 16
             ELSE (7 * i) % 16
        K == Word(MD5K[i + 1][1], MD5K[i + 1][2])
        T == Add32(Add32(Add32(F, A), K), M[g + 1])
    IN  <<D, Add32(B, RotL32(T, MD5S[i + 1])), B, C>>

\* The 64 steps from step i on.  Len(st) has the state computed before the next
\* step is taken from it.
RECURSIVE MD5Rounds(_, _, _)
MD5Rounds(st, M, i) ==
    IF i = 64 \/ Len(st) # 4 THEN st ELSE MD5Rounds(MD5Step(st, M, i), M, i + 1)

RECURSIVE MD5Blocks(_, _)
MD5Blocks(st, padded) ==
    IF padded = <<>> THEN st
    ELSE LET M == [j \in 1..16 |-> WordOfBytes(SubSeq(padded, 4 * j - 3, 4 * j))]
             r == MD5Rounds(st, M, 0)
         IN  MD5Blocks([k \in 1..4 |-> Add32(st[k], r[k])],
                       SubSeq(padded, 65, Len(padded)))

\* hashlib.md5(data).digest(): 16 bytes.
md5(data) ==
    LET st == MD5Blocks(MD5Init, MD5Pad(data))
    IN  BytesOfWord(st[1]) \o BytesOfWord(st[2]) \o BytesOfWord(st[3]) \o BytesOfWord(st[4])

(***************************************************************************)
(* Inputs of the model.                                                    *)
(***************************************************************************)
\* "", "é b" and "a \ud800" (a lone surrogate: str.encode raises on it).
TextEmpty == <<>>
TextEB == <<233, 32, 98>>
TextBad == <<97, 32, 55296>>

Texts == {TextEmpty, TextEB, TextBad}

RECURSIVE SeqsUpTo(_, _)
SeqsUpTo(S, n) ==
    IF n = 0 THEN {<<>>}
    ELSE LET shorter == SeqsUpTo(S, n - 1)
         IN  shorter \cup {Append(q, e) : q \in {p \in shorter : Len(p) = n - 1}, e \in S}

\* The lists handed to get_embeddings.
TextLists == SeqsUpTo(Texts, MaxBatch)

ClientIds == 1..NumClients

\* The default model_name of __init__, and another model of the library.
DefaultModel == "sentence-transformers/all-MiniLM-L6-v2"
OtherModel == "sentence-transformers/average_word_embeddings_glove.6B.300d"
ModelNames == {DefaultModel, OtherModel}
\* model_name is any string, a local directory included: a model saved in a
\* directory named "fallback".
LocalModel == "fallback"
ModelIdentifiers == ModelNames \cup {LocalModel}

\* What the try block of __init__ does: it completes, or the import or the
\* SentenceTransformer constructor raises ImportError, OSError (the model is
\* not found) or some other exception.
LoadOutcomes == {"ok", "ImportError", "OSError", "RuntimeError"}

None == "None"
\* No value: the call raised (exc says so).
NoValue == <<>>
Unset == "unset"

(***************************************************************************)
(* The fallback embedding.                                                 *)
(***************************************************************************)
FallbackDim == 384
DigestLen == 16
ByteMax == 255

\* hashlib.md5(text.encode()).digest() of every text of the model that
\* str.encode accepts, as hashlib gives them.  Init admits no state unless
\* each is the digest md5 computes of the text's UTF-8 encoding.
Digests ==
    (TextEmpty :> <<212, 29, 140, 217, 143, 0, 178, 4, 233, 128, 9, 152, 236, 248, 66, 126>>)
    @@ (TextEB :> <<57, 180, 146, 255, 138, 120, 48, 29, 188, 84, 56, 18, 250, 226, 71, 113>>)

DigestsAreMD5 ==
    /\ DOMAIN Digests = {t \in Texts : Encodable(t)}
    /\ \A t \in DOMAIN Digests : Digests[t] = md5(encode(t))

\* A division by 256.0 in place of 255.0.
QuotBy256(b, d) == <<b, d + 1>>

\* b / 255.0 as the exact quotient.
Quot(b, d) == <<b, d>>

\* The loop indexing hash_bytes one place too far.
FallbackLoopShifted ==
    [t \in DOMAIN Digests |->
        LET hash_bytes == Digests[t]
        IN  [i \in 1..FallbackDim |-> Quot(hash_bytes[(i % DigestLen) + 1], ByteMax)]]

\* The loop of _fallback_embedding over range(384), for every digest of the
\* model, computed once.
FallbackLoop ==
    [t \in DOMAIN Digests |->
        LET hash_bytes == Digests[t]
        IN  [i \in 1..FallbackDim |-> Quot(hash_bytes[((i - 1) % DigestLen) + 1], ByteMax)]]

\* A fallback whose vector depends on the client it is called on.
fallback_embedding_of_client(self, text) ==
    IF ~Encodable(text)
    THEN [exc |-> "UnicodeEncodeError", value |-> NoValue]
    ELSE [exc |-> "none",
          value |-> IF self.model = None THEN FallbackLoop[text]
                    ELSE [i \in 1..FallbackDim |-> FallbackLoop[text][FallbackDim + 1 - i]]]

\* _fallback_embedding(self, text): the list, or the exception of text.encode().
fallback_embedding(self, text) ==
    IF ~Encodable(text)
    THEN [exc |-> "UnicodeEncodeError", value |-> NoValue]
    ELSE [exc |-> "none", value |-> FallbackLoop[text]]

(***************************************************************************)
(* The trained model (sentence_transformers, outside the repository).      *)
(* encode is taken to be a function of the model and the text, the same    *)
(* for a text alone and in a list; whether a call raises is an input.      *)
(***************************************************************************)
\* The length of the vectors of each model: 384 and 300.
ModelDim(model) == IF model = DefaultModel THEN 384 ELSE 300

RECURSIVE Checksum(_)
Checksum(text) == IF text = <<>> THEN 1 ELSE (Head(text) + 3 * Checksum(Tail(text))) % 251

\* The vectors of the trained models, computed once: no fallback vector has a
\* negative element.
TrainedVectors ==
    [m \in ModelIdentifiers |->
        [t \in Texts |->
            [i \in 1..ModelDim(m) |-> Quot(-(1 + ((Checksum(t) + i) % 7)), ByteMax)]]]

\* self.model.encode(text).tolist()
TrainedEncode(model, text) == TrainedVectors[model][text]

\* The outcomes of one self.model.encode call: it returns or it raises.  A
\* client without a model makes no such call.
EncOutcomes(self) ==
    IF self.model = None THEN {[raises |-> FALSE]} ELSE {[raises |-> r] : r \in BOOLEAN}

(***************************************************************************)
(* HuggingFaceEmbedder.                                                    *)
(***************************************************************************)
\* A client before HuggingFaceEmbedder(...) has returned it.
NewClient == [pc |-> "new", model |-> Unset, model_name |-> Unset]

\* An __init__ whose except branch leaves model_name as it was given.
init_keeps_name(self, model_name, load) ==
    IF load = "ok"
    THEN [self |-> [pc |-> "ready", model |-> model_name, model_name |-> model_name],
          exc |-> "none"]
    ELSE IF load = "ImportError"
    THEN [self |-> [pc |-> "ready", model |-> None, model_name |-> model_name],
          exc |-> "none"]
    ELSE [self |-> self, exc |-> load]

\* __init__(self, model_name): only ImportError is caught; any other exception
\* leaves the constructor, and no client comes to exist.
init(self, model_name, load) ==
    IF load = "ok"
    THEN [self |-> [pc |-> "ready", model |-> model_name, model_name |-> model_name],
          exc |-> "none"]
    ELSE IF load = "ImportError"
    THEN [self |-> [pc |-> "ready", model |-> None, model_name |-> "fallback"],
          exc |-> "none"]
    ELSE [self |-> self, exc |-> load]

\* What a call hands back: the exception that left it (or "none"), the value
\* returned, the client afterwards, and what the call did on the way: whether
\* self.model.encode was called, whether it raised, and the texts handed to
\* _fallback_embedding, in order.
Result(self, exc, value, encoded, raised, fb) ==
    [self |-> self, exc |-> exc, value |-> value, encoded |-> encoded,
     raised |-> raised, fb |-> fb]

\* A get_embedding that tries the trained model again on a client without one.
get_embedding_reload(self, text, enc) ==
    IF self.model = None
    THEN Result([self EXCEPT !.model = DefaultModel, !.model_name = DefaultModel],
                "none", TrainedEncode(DefaultModel, text), TRUE, FALSE, <<>>)
    ELSE IF ~enc.raises
    THEN Result(self, "none", TrainedEncode(self.model, text), TRUE, FALSE, <<>>)
    ELSE LET f == fallback_embedding(self, text)
         IN  Result(self, f.exc, f.value, TRUE, TRUE, <<text>>)

\* A get_embedding that gives the trained model up once it has raised.
get_embedding_degrade(self, text, enc) ==
    IF self.model = None
    THEN LET f == fallback_embedding(self, text)
         IN  Result(self, f.exc, f.value, FALSE, FALSE, <<text>>)
    ELSE IF ~enc.raises
    THEN Result(self, "none", TrainedEncode(self.model, text), TRUE, FALSE, <<>>)
    ELSE LET f == fallback_embedding(self, text)
         IN  Result([self EXCEPT !.model = None, !.model_name = "fallback"],
                    f.exc, f.value, TRUE, TRUE, <<text>>)

\* A get_embedding that lets the exception of the trained model through.
get_embedding_propagate(self, text, enc) ==
    IF self.model = None
    THEN LET f == fallback_embedding(self, text)
         IN  Result(self, f.exc, f.value, FALSE, FALSE, <<text>>)
    ELSE IF ~enc.raises
    THEN Result(self, "none", TrainedEncode(self.model, text), TRUE, FALSE, <<>>)
    ELSE Result(self, "RuntimeError", NoValue, TRUE, TRUE, <<>>)

\* get_embedding(self, text)
get_embedding(self, text, enc) ==
    IF self.model = None
    THEN LET f == fallback_embedding(self, text)
         IN  Result(self, f.exc, f.value, FALSE, FALSE, <<text>>)
    ELSE IF ~enc.raises
    THEN Result(self, "none", TrainedEncode(self.model, text), TRUE, FALSE, <<>>)
    ELSE LET f == fallback_embedding(self, text)
         IN  Result(self, f.exc, f.value, TRUE, TRUE, <<text>>)

\* A comprehension that yields the vectors last text first.
FallbackAllReversed(self, texts) ==
    LET bad == {k \in 1..Len(texts) : fallback_embedding(self, texts[k]).exc # "none"}
        first == IF bad = {} THEN 0 ELSE CHOOSE k \in bad : \A j \in bad : k <= j
    IN  IF bad = {}
        THEN [exc |-> "none",
              value |-> [k \in 1..Len(texts) |->
                            fallback_embedding(self, texts[Len(texts) + 1 - k]).value],
              fb |-> texts]
        ELSE [exc |-> fallback_embedding(self, texts[first]).exc,
              value |-> NoValue,
              fb |-> SubSeq(texts, 1, first)]

\* [self._fallback_embedding(text) for text in texts]: the comprehension stops
\* at the first text that raises.
FallbackAll(self, texts) ==
    LET bad == {k \in 1..Len(texts) : fallback_embedding(self, texts[k]).exc # "none"}
        first == IF bad = {} THEN 0 ELSE CHOOSE k \in bad : \A j \in bad : k <= j
    IN  IF bad = {}
        THEN [exc |-> "none",
              value |-> [k \in 1..Len(texts) |-> fallback_embedding(self, texts[k]).value],
              fb |-> texts]
        ELSE [exc |-> fallback_embedding(self, texts[first]).exc,
              value |-> NoValue,
              fb |-> SubSeq(texts, 1, first)]

\* A get_embeddings that keeps, after the trained model has raised, the vector
\* the model had produced for the first text.
get_embeddings_partial(self, texts, enc) ==
    IF self.model = None
    THEN LET f == FallbackAll(self, texts)
         IN  Result(self, f.exc, f.value, FALSE, FALSE, f.fb)
    ELSE IF ~enc.raises
    THEN Result(self, "none", [k \in 1..Len(texts) |-> TrainedEncode(self.model, texts[k])],
                TRUE, FALSE, <<>>)
    ELSE LET f == FallbackAll(self, texts)
         IN  Result(self, f.exc,
                    IF f.exc = "none" /\ Len(texts) > 0
                    THEN [f.value EXCEPT ![1] = TrainedEncode(self.model, texts[1])]
                    ELSE f.value,
                    TRUE, TRUE, f.fb)

\* get_embeddings(self, texts)
get_embeddings(self, texts, enc) ==
    IF self.model = None
    THEN LET f == FallbackAll(self, texts)
         IN  Result(self, f.exc, f.value, FALSE, FALSE, f.fb)
    ELSE IF ~enc.raises
    THEN Result(self, "none", [k \in 1..Len(texts) |-> TrainedEncode(self.model, texts[k])],
                TRUE, FALSE, <<>>)
    ELSE LET f == FallbackAll(self, texts)
         IN  Result(self, f.exc, f.value, TRUE, TRUE, f.fb)

\* str.isspace() of one character.
IsSpace(cp) ==
    \/ cp \in 9..13
    \/ cp \in 28..32
    \/ cp \in {133, 160, 5760, 8232, 8233, 8239, 8287, 12288}
    \/ cp \in 8192..8202

\* len(text.split()): the maximal runs of characters that are not whitespace.
TokenCount(text) ==
    Cardinality({i \in 1..Len(text) :
                    /\ ~IsSpace(text[i])
                    /\ (i = 1 \/ IsSpace(text[i - 1]))})

\* get_embedding_and_usage(self, text)
get_embedding_and_usage(self, text, enc) ==
    LET r == get_embedding(self, text, enc)
        usage == [tokens |-> TokenCount(text), model |-> r.self.model_name]
    IN  IF r.exc # "none" THEN r
        ELSE Result(r.self, "none", <<r.value, usage>>, r.encoded, r.raised, r.fb)

(***************************************************************************)
(* cosine_similarity of the demo script.  The vectors have integer         *)
(* elements; a float64 quotient num / sqrt(densq) is kept exactly, as its  *)
(* numerator and the square of its denominator.                            *)
(***************************************************************************)
\* The elements of the vectors handed to cosine_similarity.
VecElems == {-1, 0, 1}

\* The vectors handed to cosine_similarity.
Vectors == SeqsUpTo(VecElems, MaxVecLen)

RECURSIVE SumTo(_, _)
SumTo(f, n) == IF n = 0 THEN 0 ELSE f[n] + SumTo(f, n - 1)

\* np.dot(a, b) of two arrays of one length.
dot(a, b) == SumTo([i \in 1..Len(a) |-> a[i] * b[i]], Len(a))

\* np.linalg.norm(a), squared.
norm_sq(a) == dot(a, a)

\* Division of numpy floats: x / 0.0 raises nothing, it yields nan for x = 0
\* and an infinity otherwise (with a RuntimeWarning).
float_div(num, densq) ==
    IF densq = 0
    THEN [exc |-> "none", kind |-> IF num = 0 THEN "nan" ELSE "inf", num |-> num, densq |-> 0]
    ELSE [exc |-> "none", kind |-> "finite", num |-> num, densq |-> densq]

\* cosine_similarity(a, b): np.dot raises ValueError for arrays of different
\* lengths.
cosine_similarity(a, b) ==
    IF Len(a) # Len(b)
    THEN [exc |-> "ValueError", kind |-> "none", num |-> 0, densq |-> 0]
    ELSE float_div(dot(a, b), norm_sq(a) * norm_sq(b))

(***************************************************************************)
(* The chat loop of finance-agent.py.  Lines are sequences of ASCII code   *)
(* points.                                                                 *)
(***************************************************************************)
\* "exit"
LineExit == <<101, 120, 105, 116>>
\* " Exit ": capitals, and whitespace around.
LinePadded == <<32, 69, 120, 105, 116, 9>>
\* "ex it": whitespace inside.
LineSplit == <<101, 120, 32, 105, 116>>
\* " hi"
LineHi == <<32, 104, 105>>
\* The empty line.
LineEmpty == <<>>

\* What input() returns.
Lines == {LineExit, LinePadded, LineSplit, LineHi, LineEmpty}

\* str.strip(): the whitespace at both ends removed.
RECURSIVE lstrip(_)
lstrip(text) ==
    IF text # <<>> /\ IsSpace(Head(text)) THEN lstrip(Tail(text)) ELSE text

RECURSIVE rstrip(_)
rstrip(text) ==
    IF text # <<>> /\ IsSpace(text[Len(text)])
    THEN rstrip(SubSeq(text, 1, Len(text) - 1))
    ELSE text

strip(text) == rstrip(lstrip(text))

\* str.lower() of ASCII text: A..Z become a..z.
lower(text) ==
    [i \in 1..Len(text) |-> IF text[i] \in 65..90 THEN text[i] + 32 ELSE text[i]]

\* The names the module has bound when line 33 is reached (imports and
\* assignments of lines 1-24), and the builtins the script uses.
ModuleGlobals ==
    {"Agent", "DeepSeek", "YFinanceTools", "load_dotenv", "datetime", "os", "agent",
     "user_input", "__name__"}
Builtins == {"input", "print"}

\* Evaluating a name: NameError when it is bound nowhere.
lookup(name) == IF name \in ModuleGlobals \cup Builtins THEN "none" ELSE "NameError"

\* The script at its start: at input(), nothing read, nothing forwarded.
ChatStart == [pc |-> "input", lines |-> <<>>, forwarded |-> <<>>, exc |-> "none"]

(***************************************************************************)
(* The state: the clients, and the last call with what it handed back;     *)
(* the last cosine_similarity call; the chat script.                       *)
(***************************************************************************)
VARIABLES clients, ret, sim, chat

vars == <<clients, ret, sim, chat>>

\* A cosine_similarity call and what it handed back.
SimRecord(op, a, b, r) == [op |-> op, a |-> a, b |-> b, result |-> r]

NoSim == SimRecord("none", <<>>, <<>>, [exc |-> "none", kind |-> "none", num |-> 0, densq |-> 0])

\* A call as the caller sees it, with what it did on the way: the exception
\* that left it (or "none"), the vectors it returned, in order (one for
\* get_embedding and get_embedding_and_usage), and the usage record of
\* get_embedding_and_usage.  before is the client as the call found it.  For
\* __init__, load is what the try block did.
CallRecord(c, before, op, texts, load, exc, vectors, usage, encoded, raised, fb) ==
    [client |-> c, before |-> before, op |-> op, texts |-> texts, load |-> load,
     exc |-> exc, vectors |-> vectors, usage |-> usage, encoded |-> encoded,
     raised |-> raised, fb |-> fb]

NoUsage == [tokens |-> 0, model |-> Unset]

NoCall ==
    CallRecord(0, NewClient, "none", <<>>, "none", "none", <<>>, NoUsage, FALSE, FALSE, <<>>)

Call(c, op, texts, r) ==
    CallRecord(c, clients[c], op, texts, "none", r.exc,
               IF r.exc # "none" THEN <<>>
               ELSE IF op = "get_embeddings" THEN r.value
               ELSE IF op = "get_embedding_and_usage" THEN <<r.value[1]>>
               ELSE <<r.value>>,
               IF r.exc = "none" /\ op = "get_embedding_and_usage" THEN r.value[2]
               ELSE NoUsage,
               r.encoded, r.raised, r.fb)

Init ==
    /\ DigestsAreMD5
    /\ clients = [c \in ClientIds |-> NewClient]
    /\ ret = NoCall
    /\ sim = NoSim
    /\ chat = ChatStart

\* embedder = HuggingFaceEmbedder(model_name)
Construct(c) ==
    /\ clients[c].pc = "new"
    /\ \E model_name \in ModelNames, load \in LoadOutcomes :
          LET r == init(clients[c], model_name, load)
          IN  /\ clients' = [clients EXCEPT ![c] = r.self]
              /\ ret' = CallRecord(c, clients[c], "__init__", <<>>, load, r.exc, <<>>,
                                   NoUsage, FALSE, FALSE, <<>>)
              /\ UNCHANGED <<sim, chat>>

Finish(c, op, texts, r) ==
    /\ clients' = [clients EXCEPT ![c] = r.self]
    /\ ret' = Call(c, op, texts, r)
    /\ UNCHANGED <<sim, chat>>

\* embedder.get_embedding(text)
GetEmbedding(c) ==
    /\ clients[c].pc = "ready"
    /\ \E text \in Texts, enc \in EncOutcomes(clients[c]) :
          Finish(c, "get_embedding", <<text>>, get_embedding(clients[c], text, enc))

\* embedder.get_embeddings(texts)
GetEmbeddings(c) ==
    /\ clients[c].pc = "ready"
    /\ \E texts \in TextLists, enc \in EncOutcomes(clients[c]) :
          Finish(c, "get_embeddings", texts, get_embeddings(clients[c], texts, enc))

\* embedder.get_embedding_and_usage(text)
GetEmbeddingAndUsage(c) ==
    /\ clients[c].pc = "ready"
    /\ \E text \in Texts, enc \in EncOutcomes(clients[c]) :
          Finish(c, "get_embedding_and_usage", <<text>>,
                 get_embedding_and_usage(clients[c], text, enc))

Next ==
    \E c \in ClientIds :
        \/ Construct(c)
        \/ GetEmbedding(c)
        \/ GetEmbeddings(c)
        \/ GetEmbeddingAndUsage(c)

Spec == Init /\ [][Next]_vars

\* embedder = HuggingFaceEmbedder(model_name), model_name any identifier.
ConstructNamed(c) ==
    /\ clients[c].pc = "new"
    /\ \E model_name \in ModelIdentifiers, load \in LoadOutcomes :
          LET r == init(clients[c], model_name, load)
          IN  /\ clients' = [clients EXCEPT ![c] = r.self]
              /\ ret' = CallRecord(c, clients[c], "__init__", <<>>, load, r.exc, <<>>,
                                   NoUsage, FALSE, FALSE, <<>>)
              /\ UNCHANGED <<sim, chat>>

NamedNext ==
    \E c \in 1..NumNamedClients :
        \/ ConstructNamed(c)
        \/ GetEmbedding(c)
        \/ GetEmbeddings(c)
        \/ GetEmbeddingAndUsage(c)

NamedSpec == Init /\ [][NamedNext]_vars

\* similarity = cosine_similarity(a, b)
CosineSimilarity ==
    /\ \E a \in Vectors, b \in Vectors :
          sim' = SimRecord("cosine_similarity", a, b, cosine_similarity(a, b))
    /\ UNCHANGED <<clients, ret, chat>>

SimNext == CosineSimilarity

SimSpec == Init /\ [][SimNext]_vars

\* One turn of the while loop (lines 23-31): a line is read and stripped; on
\* 'exit' the loop is left, otherwise the text goes to agent.print_response.
Turn ==
    /\ chat.pc = "input"
    /\ Len(chat.lines) < MaxInputs
    /\ \E line \in Lines :
          LET user_input == strip(line)
          IN  chat' = IF lower(user_input) = LineExit
                      THEN [chat EXCEPT !.lines = Append(@, line), !.pc = "guard"]
                      ELSE [chat EXCEPT !.lines = Append(@, line),
                                        !.forwarded = Append(@, user_input)]
    /\ UNCHANGED <<clients, ret, sim>>

\* input() at the end of the input: EOFError leaves the script.
EndOfInput ==
    /\ chat.pc = "input"
    /\ chat' = [chat EXCEPT !.pc = "end", !.exc = "EOFError"]
    /\ UNCHANGED <<clients, ret, sim>>

\* Lines 33-34, run as a script: __name__ is "__main__", and main is called.
MainGuard ==
    /\ chat.pc = "guard"
    /\ chat' = [chat EXCEPT !.pc = "end", !.exc = lookup("main")]
    /\ UNCHANGED <<clients, ret, sim>>

ChatNext == Turn \/ EndOfInput \/ MainGuard

ChatSpec == Init /\ [][ChatNext]_vars

(***************************************************************************)
(* Vocabulary of the properties.                                           *)
(***************************************************************************)
CallOps == {"get_embedding", "get_embeddings", "get_embedding_and_usage"}

Ready(c) == clients[c].pc = "ready"

\* The client holds no trained model.
Degraded(c) == Ready(c) /\ clients[c].model = None

\* The client holds a trained model.
Trained(c) == Ready(c) /\ clients[c].model \in ModelNames

\* What the Fallback Embedder gives for a list of texts: its vectors, and none
\* from the first text on that cannot be encoded.
FallbackVectors(texts) ==
    IF \A k \in 1..Len(texts) : Encodable(texts[k])
    THEN [k \in 1..Len(texts) |-> FallbackLoop[texts[k]]]
    ELSE <<>>

(***************************************************************************)
(* C1.  Constructing a client never fails: whatever the loading of the     *)
(* trained model does, the constructor returns, and when the loading       *)
(* failed the client is degraded (no model, source label "fallback").      *)
(* The code catches ImportError alone, so this is violated.                *)
(***************************************************************************)
C1_ConstructionNeverFails ==
    ret.op = "__init__" =>
        /\ ret.exc = "none"
        /\ Ready(ret.client)
        /\ (ret.load # "ok" =>
                /\ clients[ret.client].model = None
                /\ clients[ret.client].model_name = "fallback")

(***************************************************************************)
(* C2.  Degradation monotonicity: every call of get_embedding,             *)
(* get_embeddings and get_embedding_and_usage on a degraded client leaves  *)
(* the client as it was, degraded, and returns the Fallback Embedder's     *)
(* result (its vectors, or its encoding error) without calling the trained *)
(* model; and no constructor runs on a client that exists, so none is      *)
(* loaded again.                                                           *)
(***************************************************************************)
C2_DegradationMonotone ==
    /\ (ret.op \in CallOps /\ ret.before.model = None) =>
          /\ clients[ret.client] = ret.before
          /\ Degraded(ret.client)
          /\ ~ret.encoded
          /\ ~ret.raised
          /\ ret.fb # <<>> \/ ret.texts = <<>>
          /\ ret.vectors = FallbackVectors(ret.texts)
          /\ (ret.exc = "none") = (\A k \in 1..Len(ret.texts) : Encodable(ret.texts[k]))
    /\ ret.op = "__init__" => ret.before = NewClient
    /\ \A c \in ClientIds :
          Degraded(c) =>
              \A text \in Texts, enc \in EncOutcomes(clients[c]) :
                  /\ get_embedding(clients[c], text, enc).self = clients[c]
                  /\ get_embedding_and_usage(clients[c], text, enc).self = clients[c]
                  /\ get_embeddings(clients[c], <<text>>, enc).self = clients[c]

\* A degraded client has answered a list of two texts, after the call before
\* it on the same client.
C2_Witness ==
    /\ ret.op = "get_embeddings"
    /\ Degraded(ret.client)
    /\ Len(ret.texts) = 2
    /\ ret.exc = "none"
    /\ ret.fb = ret.texts

(***************************************************************************)
(* C3.  A failure of the trained model inside get_embedding is local to    *)
(* the call.  As claimed: the call returns the fallback vector of the text *)
(* and raises nothing.  That fails for a text str.encode rejects, where    *)
(* the fallback itself raises UnicodeEncodeError.                          *)
(***************************************************************************)
C3_FailureRaisesNothing ==
    (ret.op = "get_embedding" /\ ret.raised) =>
        /\ ret.exc = "none"
        /\ ret.vectors = FallbackVectors(ret.texts)

(***************************************************************************)
(* C3, amended.  When self.model.encode raises inside get_embedding on a   *)
(* client with a trained model, the call hands back the Fallback           *)
(* Embedder's result for the same text (its vector, or its                 *)
(* UnicodeEncodeError when the text cannot be encoded) and never the       *)
(* trained model's exception; the client is left as it was, with its       *)
(* model; and any get_embedding call made on it next calls                 *)
(* self.model.encode again.                                                *)
(***************************************************************************)
C3_FailureIsLocal ==
    (ret.op = "get_embedding" /\ ret.raised) =>
        /\ ret.before.model \in ModelNames
        /\ ret.encoded
        /\ ret.fb = ret.texts
        /\ ret.vectors = FallbackVectors(ret.texts)
        /\ ret.exc = (IF Encodable(ret.texts[1]) THEN "none" ELSE "UnicodeEncodeError")
        /\ clients[ret.client] = ret.before
        /\ Trained(ret.client)
        /\ \A text \in Texts, enc \in EncOutcomes(clients[ret.client]) :
              get_embedding(clients[ret.client], text, enc).encoded

\* The trained model has raised inside get_embedding and the caller holds the
\* fallback vector; the client still has its model.
C3_Witness ==
    /\ ret.op = "get_embedding"
    /\ ret.raised
    /\ ret.exc = "none"
    /\ ret.vectors = <<FallbackLoop[TextEB]>>
    /\ Trained(ret.client)

(***************************************************************************)
(* Quotients num / den with den > 0, as <<num, den>>.                      *)
(***************************************************************************)
AtLeastZero(q) == q[2] > 0 /\ q[1] >= 0
LessThanOne(q) == q[2] > 0 /\ q[1] < q[2]
AtMostOne(q) == q[2] > 0 /\ q[1] <= q[2]
IsOne(q) == q[2] > 0 /\ q[1] = q[2]

\* The vectors of the last call came from _fallback_embedding: vector k is
\* that of text k.
FromFallback == ret.op \in CallOps /\ ret.exc = "none" /\ ret.fb # <<>>

(***************************************************************************)
(* C4.  Every vector the Fallback Embedder returns for a text t has        *)
(* exactly 384 elements, element i (0 <= i < 384) being byte i mod 16 of   *)
(* the 16-byte MD5 digest of the UTF-8 encoding of t, divided by 255; so   *)
(* element i equals element i + 16 whenever i + 16 < 384.  For the empty   *)
(* text the digest is d41d8cd9...427e (RFC 1321).                          *)
(***************************************************************************)
C4_FallbackVector ==
    FromFallback =>
        \A k \in 1..Len(ret.vectors) :
            LET v == ret.vectors[k]
                t == ret.texts[k]
            IN  /\ Len(v) = 384
                /\ Len(Digests[t]) = 16
                /\ \A i \in 0..383 : v[i + 1] = <<Digests[t][(i % 16) + 1], 255>>
                /\ \A i \in 0..383 : i + 16 < 384 => v[i + 1] = v[i + 17]
                /\ t = TextEmpty =>
                      /\ SubSeq(v, 1, 4) = <<<<212, 255>>, <<29, 255>>, <<140, 255>>, <<217, 255>>>>
                      /\ SubSeq(v, 381, 384) = <<<<236, 255>>, <<248, 255>>, <<66, 255>>, <<126, 255>>>>

\* A degraded client has returned the fallback vector of the empty text and,
\* in the same list, that of "é b".
C4_Witness ==
    /\ FromFallback
    /\ ret.op = "get_embeddings"
    /\ ret.texts = <<TextEmpty, TextEB>>
    /\ Len(ret.vectors) = 2

(***************************************************************************)
(* C5.  As claimed: every element of a fallback vector is at least 0.0 and *)
(* strictly less than 1.0.  A digest byte 255 gives 255 / 255.0 = 1.0.     *)
(***************************************************************************)
C5_HalfOpenRange ==
    FromFallback =>
        \A k \in 1..Len(ret.vectors) : \A i \in 1..Len(ret.vectors[k]) :
            AtLeastZero(ret.vectors[k][i]) /\ LessThanOne(ret.vectors[k][i])

(***************************************************************************)
(* C5, amended.  Every element of a fallback vector lies in the closed     *)
(* range [0.0, 1.0]; it is 1.0 exactly where the digest byte is 255.       *)
(***************************************************************************)
C5_ClosedRange ==
    FromFallback =>
        \A k \in 1..Len(ret.vectors) : \A i \in 1..Len(ret.vectors[k]) :
            /\ AtLeastZero(ret.vectors[k][i])
            /\ AtMostOne(ret.vectors[k][i])
            /\ IsOne(ret.vectors[k][i]) = (Digests[ret.texts[k]][((i - 1) % 16) + 1] = 255)

\* A fallback vector with an element 1.0: the digest of "é b" has a byte 255.
C5_Witness ==
    /\ FromFallback
    /\ \E k \in 1..Len(ret.vectors) : \E i \in 1..Len(ret.vectors[k]) :
          IsOne(ret.vectors[k][i])

(***************************************************************************)
(* C6.  The Fallback Embedder is a function of the text alone.  In every   *)
(* reachable state, that is after any calls on any clients, whichever      *)
(* client is asked and through whichever of get_embedding, get_embeddings  *)
(* and get_embedding_and_usage, a call that reaches the fallback returns   *)
(* for a text the same vector; and the vectors the last call returned      *)
(* from the fallback are still the ones any call would return now.         *)
(***************************************************************************)
\* The outcomes of self.model.encode with which a call reaches the fallback.
FallbackOutcomes(self) == {enc \in EncOutcomes(self) : self.model = None \/ enc.raises}

C6_FallbackIsPure ==
    \A c1 \in ClientIds, c2 \in ClientIds :
        (Ready(c1) /\ Ready(c2)) =>
            \A t \in DOMAIN Digests :
                \A e1 \in FallbackOutcomes(clients[c1]), e2 \in FallbackOutcomes(clients[c2]) :
                    LET one == get_embedding(clients[c1], t, e1).value
                        many == get_embeddings(clients[c2], <<t, t>>, e2).value
                        used == get_embedding_and_usage(clients[c2], t, e2).value
                    IN  /\ many = <<one, one>>
                        /\ used[1] = one
                        /\ FromFallback =>
                              \A k \in 1..Len(ret.texts) :
                                  ret.texts[k] = t => ret.vectors[k] = one

\* Two clients, one degraded and one with a trained model that has just raised
\* in get_embeddings, so that its vectors came from the fallback.
C6_Witness ==
    /\ FromFallback
    /\ ret.op = "get_embeddings"
    /\ ret.raised
    /\ ret.texts = <<TextEB, TextEB>>
    /\ \E c \in ClientIds : c # ret.client /\ Degraded(c)

C8_LabelIdentifiesPath ==
    (ret.op = "get_embedding_and_usage" /\ ret.exc = "none") =>
        /\ (ret.usage.model = "fallback") = (ret.fb # <<>>)
        /\ ret.fb = <<>> => ret.usage.model = ret.before.model
        /\ ret.usage.tokens = TokenCount(ret.texts[1])

(***************************************************************************)
(* C9.  A get_embedding or get_embeddings call on a constructed client     *)
(* either returns one vector per text or raises the encoding error, and    *)
(* then returns no vector; an exception of the trained model never leaves  *)
(* the call.  The encoding error is raised exactly when the fallback is    *)
(* reached (client degraded, or trained model raised) with a text that     *)
(* cannot be encoded to bytes, in both modes.                              *)
(***************************************************************************)
C9_OnlyEncodingErrorPropagates ==
    ret.op \in {"get_embedding", "get_embeddings"} =>
        LET reached == ret.before.model = None \/ ret.raised
            unencodable == \E k \in 1..Len(ret.texts) : ~Encodable(ret.texts[k])
        IN  /\ ret.before.pc = "ready"
            /\ ret.exc \in {"none", "UnicodeEncodeError"}
            /\ ret.exc = "none" => Len(ret.vectors) = Len(ret.texts)
            /\ ret.exc = "UnicodeEncodeError" => ret.vectors = <<>>
            /\ (ret.exc = "UnicodeEncodeError") = (reached /\ unencodable)

\* A client with a trained model: the model raised in get_embedding, and the
\* encoding error of the fallback left the call.
C9_Witness ==
    /\ ret.op = "get_embedding"
    /\ ret.before.model \in ModelNames
    /\ ret.raised
    /\ ret.texts = <<TextBad>>
    /\ ret.exc = "UnicodeEncodeError"
    /\ \E c \in ClientIds : Degraded(c)

(***************************************************************************)
(* C10.  On a client with a trained model, when the model raises during    *)
(* get_embeddings(texts), the model's exception does not leave the call,   *)
(* the fallback is asked for the texts in order, and the list returned is  *)
(* the fallback vector of every text of the batch, in order: no vector of  *)
(* the trained model is in it.                                             *)
(***************************************************************************)
C10_BatchFailureAllFallback ==
    (ret.op = "get_embeddings" /\ ret.before.model # None /\ ret.raised) =>
        /\ ret.exc \in {"none", "UnicodeEncodeError"}
        /\ (ret.exc = "none") = (\A k \in 1..Len(ret.texts) : Encodable(ret.texts[k]))
        /\ \A k \in 1..Len(ret.fb) : ret.fb[k] = ret.texts[k]
        /\ ret.exc = "none" =>
              /\ ret.fb = ret.texts
              /\ ret.vectors = FallbackVectors(ret.texts)
              /\ \A k \in 1..Len(ret.texts) : \A m \in ModelNames :
                    ret.vectors[k] # TrainedEncode(m, ret.texts[k])
        /\ clients[ret.client] = ret.before

\* The trained model has raised in get_embeddings on a list of two texts, and
\* a list of two vectors was returned.
C10_Witness ==
    /\ ret.op = "get_embeddings"
    /\ ret.before.model \in ModelNames
    /\ ret.raised
    /\ ret.exc = "none"
    /\ ret.texts = <<TextEmpty, TextEB>>
    /\ Len(ret.vectors) = 2

(***************************************************************************)
(* C11.  As claimed: cosine_similarity of an all-zero vector and a         *)
(* non-zero vector of the same length returns neither NaN nor an infinity  *)
(* and handles the zero magnitude explicitly, by a sentinel or an error of *)
(* its own.  The code divides by the product of the norms unguarded: the   *)
(* numpy division 0.0 / 0.0 returns nan.                                   *)
(***************************************************************************)
IsZeroVector(v) == \A i \in 1..Len(v) : v[i] = 0

C11_ZeroVectorHandled ==
    (/\ sim.op = "cosine_similarity"
     /\ Len(sim.a) = Len(sim.b)
     /\ IsZeroVector(sim.a) # IsZeroVector(sim.b))
    => sim.result.kind \notin {"nan", "inf"}

(***************************************************************************)
(* C12.  As claimed: whatever model a client was constructed with, the     *)
(* fallback vector is as long as the vectors of its trained model, so      *)
(* every vector a client returns, from get_embedding or get_embeddings,    *)
(* with the trained model answering or raising, has one length.  The       *)
(* fallback has 384 elements whatever the model: a client of a model with  *)
(* 300 dimensions returns vectors of both lengths.                         *)
(***************************************************************************)
C12_OneLengthPerClient ==
    (ret.op \in {"get_embedding", "get_embeddings"} /\ ret.exc = "none") =>
        \A k \in 1..Len(ret.vectors) :
            \A t \in DOMAIN Digests :
                \A enc \in EncOutcomes(clients[ret.client]) :
                    /\ Len(get_embedding(clients[ret.client], t, enc).value)
                          = Len(ret.vectors[k])
                    /\ Len(get_embeddings(clients[ret.client], <<t>>, enc).value[1])
                          = Len(ret.vectors[k])

(***************************************************************************)
(* C13.  As claimed: in every reachable state a constructed client has no  *)
(* trained model if and only if its model_name is "fallback".  A client    *)
(* constructed with the identifier "fallback" whose model loads has a      *)
(* model and that label.                                                   *)
(***************************************************************************)
C13_AbsentIffFallback ==
    \A c \in ClientIds :
        Ready(c) => ((clients[c].model = None) = (clients[c].model_name = "fallback"))

(***************************************************************************)
(* C13, amended.  In every reachable state, a constructed client without   *)
(* a trained model has the model_name "fallback", and one with a trained   *)
(* model has the identifier it was constructed with (which may itself be   *)
(* "fallback").  model and model_name are unset before __init__, are set   *)
(* by __init__ alone, once, and together, and no get_embedding,            *)
(* get_embeddings or get_embedding_and_usage call, answered by the model   *)
(* or by the fallback, returning or raising, changes either.               *)
(***************************************************************************)
C13_FieldsSetOnce ==
    /\ \A c \in ClientIds :
          /\ ~Ready(c) => clients[c] = NewClient
          /\ Ready(c) =>
                /\ clients[c].model = None => clients[c].model_name = "fallback"
                /\ clients[c].model # None =>
                      /\ clients[c].model \in ModelIdentifiers
                      /\ clients[c].model_name = clients[c].model
                /\ \A t \in Texts : \A enc \in EncOutcomes(clients[c]) :
                      /\ get_embedding(clients[c], t, enc).self = clients[c]
                      /\ get_embeddings(clients[c], <<t, t>>, enc).self = clients[c]
                      /\ get_embedding_and_usage(clients[c], t, enc).self = clients[c]
    /\ ret.op = "__init__" =>
          /\ ret.before = NewClient
          /\ ret.exc = "none" => Ready(ret.client)
          /\ ret.exc # "none" => clients[ret.client] = NewClient
    /\ ret.op \in CallOps =>
          /\ ret.before.pc = "ready"
          /\ clients[ret.client] = ret.before

\* A client constructed with the identifier "fallback" holds a trained model;
\* the model has just raised in get_embedding_and_usage, the fallback answered.
C13_Witness ==
    /\ ret.op = "get_embedding_and_usage"
    /\ ret.raised
    /\ ret.exc = "none"
    /\ clients[ret.client].model = LocalModel
    /\ clients[ret.client].model_name = "fallback"

(***************************************************************************)
(* C14.  As claimed: in the chat loop every line that is not 'exit' (after *)
(* strip and lower) is forwarded to the agent once, in order; at the first *)
(* 'exit' the loop stops, nothing more is forwarded, and the script        *)
(* finishes without an error.  After the loop the script calls main(),     *)
(* which is defined nowhere: it ends with NameError.                       *)
(***************************************************************************)
\* The lines read that are not 'exit', stripped, in order.
RECURSIVE NotExit(_)
NotExit(lines) ==
    IF lines = <<>> THEN <<>>
    ELSE IF lower(strip(Head(lines))) = LineExit THEN NotExit(Tail(lines))
    ELSE <<strip(Head(lines))>> \o NotExit(Tail(lines))

\* The loop has been left by 'exit'.
Exited == chat.lines # <<>> /\ lower(strip(chat.lines[Len(chat.lines)])) = LineExit

C14_ExitEndsScript ==
    /\ chat.forwarded = NotExit(chat.lines)
    /\ \A k \in 1..(Len(chat.lines) - 1) : lower(strip(chat.lines[k])) # LineExit
    /\ Exited => chat.pc \in {"guard", "end"}
    /\ (Exited /\ chat.pc = "end") => chat.exc = "none"

====
